---------------------------- MODULE Spec2Model ----------------------------
(***************************************************************************)
(* A model of snr.py: the ring of sequences (Seq), the signature near-ring *)
(* (Sig) and the matrix layer (Block).                                     *)
(*                                                                         *)
(* A coefficient is a Python number.  Python's `/` is float division, so   *)
(* a coefficient is either an integer or a binary64 float; a number is     *)
(* modelled by its exact value, as the record                              *)
(*     [i |-> n, neg |-> FALSE, m |-> <<>>, e |-> 0]   the integer n       *)
(*     [i |-> 0, neg |-> s, m |-> M, e |-> k]          (-1)^s * M * 2^k    *)
(* where M is an odd natural number written in base 2^LimbBits, least      *)
(* significant digit first, and k < 0.  Every float operation computes the *)
(* exact result and rounds it to Prec significant bits, ties to even.      *)
(***************************************************************************)
EXTENDS Integers, Sequences, FiniteSets, TLC

\* ------------------------------------------------------------------------
\* Natural numbers of any size, in base 2^LimbBits, least significant first
\* ------------------------------------------------------------------------

Front(s) == SubSeq(s, 1, Len(s) - 1)

Last(s) == s[Len(s)]

Min(x, y) == IF x < y THEN x ELSE y

Max(x, y) == IF x < y THEN y ELSE x

Abs(x) == IF x < 0 THEN 0 - x ELSE x

RECURSIVE Pow2(_)
Pow2(k) == IF k = 0 THEN 1 ELSE 2 * Pow2(k - 1)

\* Bits of a digit: digit * digit stays below 2^31
LimbBits == 15

Limb == Pow2(LimbBits)

RECURSIVE Zeros(_)
Zeros(k) == IF k <= 0 THEN <<>> ELSE Append(Zeros(k - 1), 0)

RECURSIVE StripHigh(_)
StripHigh(x) == IF x # <<>> /\ Last(x) = 0 THEN StripHigh(Front(x)) ELSE x

RECURSIVE NatBig(_)
NatBig(n) == IF n = 0 THEN <<>> ELSE <<n % Limb>> \o NatBig(n \div Limb)

RECURSIVE BigNat(_)
BigNat(x) == IF x = <<>> THEN 0 ELSE Head(x) + Limb * BigNat(Tail(x))

RECURSIVE BigAddC(_, _, _)
BigAddC(x, y, c) ==
    IF x = <<>> /\ y = <<>>
    THEN IF c = 0 THEN <<>> ELSE <<c>>
    ELSE LET s == (IF x = <<>> THEN 0 ELSE Head(x))
                   + (IF y = <<>> THEN 0 ELSE Head(y)) + c
         IN  <<s % Limb>> \o BigAddC(IF x = <<>> THEN x ELSE Tail(x),
                                     IF y = <<>> THEN y ELSE Tail(y), s \div Limb)

BigAdd(x, y) == BigAddC(x, y, 0)

RECURSIVE BigSubB(_, _, _)
BigSubB(x, y, br) ==
    IF x = <<>>
    THEN <<>>
    ELSE LET d == Head(x) - (IF y = <<>> THEN 0 ELSE Head(y)) - br
         IN  <<(d + Limb) % Limb>>
             \o BigSubB(Tail(x), IF y = <<>> THEN y ELSE Tail(y),
                        IF d < 0 THEN 1 ELSE 0)

\* x - y for x >= y
BigSub(x, y) == StripHigh(BigSubB(x, y, 0))

RECURSIVE TopLess(_, _)
TopLess(x, y) ==
    IF x = <<>> THEN FALSE
    ELSE IF Last(x) # Last(y) THEN Last(x) < Last(y)
    ELSE TopLess(Front(x), Front(y))

BigLess(x, y) ==
    \/ Len(x) < Len(y)
    \/ Len(x) = Len(y) /\ TopLess(x, y)

\* x * c + carry for a digit c
RECURSIVE BigMulSmall(_, _, _)
BigMulSmall(x, c, carry) ==
    IF x = <<>>
    THEN IF carry = 0 THEN <<>> ELSE <<carry>>
    ELSE LET t == Head(x) * c + carry
         IN  <<t % Limb>> \o BigMulSmall(Tail(x), c, t \div Limb)

RECURSIVE BigMul(_, _)
BigMul(x, y) ==
    IF y = <<>> \/ x = <<>>
    THEN <<>>
    ELSE LET p == BigMul(x, Tail(y))
         IN  BigAdd(StripHigh(BigMulSmall(x, Head(y), 0)),
                    IF p = <<>> THEN p ELSE <<0>> \o p)

\* <<x div d, x mod d>> for a divisor 0 < d < 2 * Limb, rem the remainder of
\* the digits above x
RECURSIVE BigDivSmall(_, _, _)
BigDivSmall(x, d, rem) ==
    IF x = <<>>
    THEN <<<<>>, rem>>
    ELSE LET cur == rem * Limb + Last(x)
             low == BigDivSmall(Front(x), d, cur % d)
         IN  <<Append(low[1], cur \div d), low[2]>>

RECURSIVE SmallBitLen(_)
SmallBitLen(n) == IF n = 0 THEN 0 ELSE 1 + SmallBitLen(n \div 2)

BitLen(x) == IF x = <<>> THEN 0 ELSE (Len(x) - 1) * LimbBits + SmallBitLen(Last(x))

\* x * 2^s
ShiftLeft(x, s) ==
    IF x = <<>> THEN x
    ELSE Zeros(s \div LimbBits) \o StripHigh(BigMulSmall(x, Pow2(s % LimbBits), 0))

\* <<x div 2^s, whether x mod 2^s # 0>>
ShiftRight(x, s) ==
    LET k  == Min(s \div LimbBits, Len(x))
        qr == BigDivSmall(SubSeq(x, k + 1, Len(x)), Pow2(s % LimbBits), 0)
    IN  <<StripHigh(qr[1]), qr[2] # 0 \/ \E j \in 1..k : x[j] # 0>>

RECURSIVE SmallTrailZeros(_)
SmallTrailZeros(n) == IF n % 2 = 1 THEN 0 ELSE 1 + SmallTrailZeros(n \div 2)

\* The number of trailing zero bits of x # 0
RECURSIVE TrailZeros(_)
TrailZeros(x) ==
    IF Head(x) = 0 THEN LimbBits + TrailZeros(Tail(x)) ELSE SmallTrailZeros(Head(x))

\* ------------------------------------------------------------------------
\* Python numbers: int and float (binary64)
\* ------------------------------------------------------------------------

\* Significant bits of a Python float
Prec == 53

IntNum(n) == [i |-> n, neg |-> FALSE, m |-> <<>>, e |-> 0]

IsInt(x) == x.m = <<>>

\* The number of value (-1)^neg * m * 2^e, in its one representation
Canon(neg, m, e) ==
    IF m = <<>> THEN IntNum(0)
    ELSE LET tz == TrailZeros(m)
             o  == ShiftRight(m, tz)[1]
         IN  IF e + tz >= 0
             THEN IntNum((IF neg THEN -1 ELSE 1) * BigNat(o) * Pow2(e + tz))
             ELSE [i |-> 0, neg |-> neg, m |-> o, e |-> e + tz]

\* sign, numeral and exponent of a number
Dy(x) ==
    IF IsInt(x)
    THEN [neg |-> x.i < 0, m |-> NatBig(Abs(x.i)), e |-> 0]
    ELSE [neg |-> x.neg, m |-> x.m, e |-> x.e]

\* Round m * 2^e to Prec bits, ties to even; sticky says that the exact value
\* lies a little above m * 2^e.
Round(neg, m, e, sticky) ==
    IF BitLen(m) <= Prec
    THEN Canon(neg, m, e)
    ELSE LET s    == BitLen(m) - Prec
             g    == ShiftRight(m, s - 1)
             keep == ShiftRight(g[1], 1)[1]
             half == Head(g[1]) % 2 = 1
             up   == half /\ (sticky \/ g[2] \/ Head(keep) % 2 = 1)
         IN  Canon(neg, IF up THEN BigAdd(keep, <<1>>) ELSE keep, e + s)

FloatAdd(x, y) ==
    LET dx == Dy(x)
        dy == Dy(y)
        e  == Min(dx.e, dy.e)
        mx == ShiftLeft(dx.m, dx.e - e)
        my == ShiftLeft(dy.m, dy.e - e)
    IN  IF dx.neg = dy.neg
        THEN Round(dx.neg, BigAdd(mx, my), e, FALSE)
        ELSE IF BigLess(mx, my)
        THEN Round(dy.neg, BigSub(my, mx), e, FALSE)
        ELSE Round(dx.neg, BigSub(mx, my), e, FALSE)

FloatMul(x, y) ==
    LET dx == Dy(x)
        dy == Dy(y)
    IN  Round(dx.neg # dy.neg, BigMul(dx.m, dy.m), dx.e + dy.e, FALSE)

\* x / y for y # 0.  Every divisor in snr.py is a coefficient of an operand
\* (lines 187, 190, 306, 311, 411), whose numeral is a single digit.
FloatDiv(x, y) ==
    LET dx == Dy(x)
        dy == Dy(y)
        d  == CASE Len(dy.m) = 1 -> Head(dy.m)
        k  == Max(0, Prec + 2 + SmallBitLen(d) - BitLen(dx.m))
        qr == BigDivSmall(ShiftLeft(dx.m, k), d, 0)
    IN  IF dx.m = <<>> THEN IntNum(0)
        ELSE Round(dx.neg # dy.neg, StripHigh(qr[1]), dx.e - dy.e - k, qr[2] # 0)

NumAdd(x, y) == IF IsInt(x) /\ IsInt(y) THEN IntNum(x.i + y.i) ELSE FloatAdd(x, y)

NumNeg(x) == IF IsInt(x) THEN IntNum(0 - x.i) ELSE [x EXCEPT !.neg = ~x.neg]

NumSub(x, y) == NumAdd(x, NumNeg(y))

NumMul(x, y) == IF IsInt(x) /\ IsInt(y) THEN IntNum(x.i * y.i) ELSE FloatMul(x, y)

NumDiv(x, y) == FloatDiv(x, y)

Zero == IntNum(0)

One == IntNum(1)

\* ------------------------------------------------------------------------
\* Results: a value, or the exception the call raises
\* ------------------------------------------------------------------------

Ok(v) == [err |-> "none", val |-> v]

Raise(e) == [err |-> e, val |-> <<>>]

\* ------------------------------------------------------------------------
\* Seq: a Seq is modelled by its list val; index k of the code is k + 1 here
\* ------------------------------------------------------------------------

\* [int(v) if int(v) == v else v for v in val]: a number is modelled by its
\* value, which the conversion keeps
Ints(l) == [k \in 1..Len(l) |-> IntNum(l[k])]

SeqLen(v) == IF Len(v) = 1 /\ v[1] = Zero THEN 0 ELSE Len(v)

SeqGet(v, i) == IF SeqLen(v) > i /\ i >= 0 THEN v[i + 1] ELSE Zero

SeqSetItem(v, key, value) ==
    IF SeqLen(v) > key /\ key >= 0 THEN [v EXCEPT ![key + 1] = value] ELSE v

\* sum(t): ((0 + t[1]) + t[2]) + ...
RECURSIVE Sum(_)
Sum(t) == IF t = <<>> THEN Zero ELSE NumAdd(Sum(Front(t)), Last(t))

SeqAdd(s, o) ==
    [k \in 1..Max(SeqLen(s), SeqLen(o)) |-> NumAdd(SeqGet(s, k - 1), SeqGet(o, k - 1))]

SeqEq(s, o) ==
    \A k \in 0..(Max(SeqLen(s), SeqLen(o)) - 1) : SeqGet(s, k) = SeqGet(o, k)

SeqMul(s, o) ==
    [x \in 1..Max(0, SeqLen(s) + SeqLen(o) - 1) |->
        Sum([k \in 1..x |-> NumMul(SeqGet(s, k - 1), SeqGet(o, x - k))])]

RECURSIVE SeqPow(_, _)
SeqPow(s, power) == IF power <= 0 THEN <<One>> ELSE SeqMul(SeqPow(s, power - 1), s)

SeqNeg(s) == [k \in 1..Len(s) |-> NumNeg(s[k])]

SeqSub(s, o) == SeqAdd(s, SeqNeg(o))

\* The loop of Seq.__truediv__ from index x on, r the quotient so far
RECURSIVE TrueDivLoop(_, _, _, _, _)
TrueDivLoop(s, o, r, x, l) ==
    IF x >= l THEN r
    ELSE TrueDivLoop(s, o,
            Append(r, NumDiv(NumSub(SeqGet(s, x),
                                    Sum([k \in 1..x |->
                                          NumMul(SeqGet(r, k - 1), SeqGet(o, x - k + 1))])),
                             SeqGet(o, 0))),
            x + 1, l)

SeqTrueDiv(s, o) ==
    IF SeqGet(o, 0) = Zero
    THEN Raise("ZeroDivisionError")
    ELSE Ok(TrueDivLoop(s, o, <<NumDiv(SeqGet(s, 0), SeqGet(o, 0))>>, 1,
                        Max(SeqLen(s), SeqLen(o))))

RECURSIVE AerateLoop(_, _, _, _)
AerateLoop(s, a, out, k) ==
    IF k >= SeqLen(s) * a THEN out
    ELSE AerateLoop(s, a, SeqSetItem(out, k, SeqGet(s, k \div a)), k + a)

SeqAerate(s, a) == AerateLoop(s, a, [k \in 1..(SeqLen(s) * a) |-> Zero], 0)

\* n after the inner loop of Seq.f for index x
RECURSIVE FInner(_, _, _, _)
FInner(s, r, x, k) ==
    IF k <= 0 THEN Zero
    ELSE NumAdd(FInner(s, r, x, k - 1),
                NumMul(SeqGet(s, k - 1), SeqGet(r, x - (k - 1) - 1)))

RECURSIVE FLoop(_, _, _, _)
FLoop(s, r, x, l) ==
    IF x >= l THEN r ELSE FLoop(s, Append(r, FInner(s, r, x, SeqLen(s))), x + 1, l)

SeqF(s, l) == FLoop(s, <<One>>, 1, l)

\* n after the inner loop of Seq.i for index x, k the last index subtracted
RECURSIVE IInner(_, _, _, _)
IInner(s, r, x, k) ==
    IF k <= 0 THEN SeqGet(s, x)
    ELSE NumSub(IInner(s, r, x, k - 1), NumMul(SeqGet(r, k - 1), SeqGet(s, x - k)))

RECURSIVE ILoop(_, _, _)
ILoop(s, r, x) ==
    IF x >= SeqLen(s) THEN r ELSE ILoop(s, Append(r, IInner(s, r, x, x - 1)), x + 1)

\* Seq.i with its loop begun at index 1
SeqIFromOne(s) ==
    IF SeqGet(s, 0) # One
    THEN Raise("ValueError")
    ELSE Ok(ILoop(s, <<SeqGet(s, 1)>>, 1))

SeqI(s) ==
    IF SeqGet(s, 0) # One
    THEN Raise("ValueError")
    ELSE Ok(ILoop(s, <<SeqGet(s, 1)>>, 2))

\* ------------------------------------------------------------------------
\* Sig: a Sig is modelled by the list of its Seq.  len(sig) is len(sig.val)
\* and sig[i] is sig.val[i], so SeqLen and SeqGet read a Sig too.
\* ------------------------------------------------------------------------

\* x = Seq([0, 1])
X == <<Zero, One>>

\* The loop of Sig.__mul__ from index k on: <<out, g>>
RECURSIVE SigMulLoop(_, _, _, _, _)
SigMulLoop(aw, o, out, g, k) ==
    IF k >= SeqLen(o) THEN out
    ELSE SigMulLoop(aw, o, SeqAdd(out, SeqMul(g, <<SeqGet(o, k)>>)), SeqMul(g, aw), k + 1)

\* Sig.__mul__ without its last statement, out *= a
SigMulNoScale(s, o) == SigMulLoop(SeqMul(s, X), o, <<Zero>>, <<One>>, 0)

SigMul(s, o) == SeqMul(SigMulLoop(SeqMul(s, X), o, <<Zero>>, <<One>>, 0), s)

SigEq(s, o) == SeqEq(s, o)

\* while out[-1] == 0: out.pop(-1), on a Python list
RECURSIVE PopZeros(_)
PopZeros(out) ==
    IF out = <<>> THEN Raise("IndexError")
    ELSE IF Last(out) = Zero THEN PopZeros(Front(out))
    ELSE Ok(out)

\* The loop of Sig.__truediv__ from index x on.  In `bp *= x * a` the name x
\* is the loop index, an int, so x * a is Sig.__rmul__: Sig(x) * a.
RECURSIVE SigTrueDivLoop(_, _, _, _, _, _)
SigTrueDivLoop(a_, out, ap, bp, x, l) ==
    IF x >= l THEN PopZeros(out)
    ELSE IF SeqGet(bp, x) = Zero THEN Raise("ZeroDivisionError")
    ELSE LET q == NumDiv(SeqGet(ap, x), SeqGet(bp, x))
         IN  SigTrueDivLoop(a_, Append(out, q),
                            SeqSub(ap, SeqMul(bp, <<q>>)),
                            SeqMul(bp, SigMul(<<IntNum(x)>>, a_)),
                            x + 1, l)

SigTrueDiv(s, a_) == SigTrueDivLoop(a_, <<>>, s, a_, 0, Max(SeqLen(s), SeqLen(a_)))

\* The inner loop of Sig.__floordiv__ from row k on: block[k] gets the
\* product of block[0] and block[k - 1] at the new index
RECURSIVE FloorDivRows(_, _, _)
FloorDivRows(block, k, l) ==
    IF k >= l THEN block
    ELSE LET len0 == SeqLen(block[1])
             t    == [j \in 1..len0 |->
                        NumMul(SeqGet(block[1], len0 - (j - 1) - 1),
                               SeqGet(block[k], j - 1))]
         IN  FloorDivRows([block EXCEPT ![k + 1] = Append(@, Sum(t))], k + 1, l)

\* The outer loop of Sig.__floordiv__ from index x on
RECURSIVE FloorDivLoop(_, _, _, _, _)
FloorDivLoop(s, b_, block, x, l) ==
    IF x >= l THEN block
    ELSE LET v == [k \in 1..x |-> NumMul(SeqGet(block[k + 1], x - k), SeqGet(b_, k))]
             q == NumDiv(NumSub(SeqGet(s, x), Sum(v)), SeqGet(b_, 0))
         IN  FloorDivLoop(s, b_,
                          FloorDivRows([block EXCEPT ![1] = Append(@, q)], 1, l),
                          x + 1, l)

SigFloorDiv(s, b_) ==
    LET l == Max(SeqLen(s), SeqLen(b_))
    IN  IF SeqGet(b_, 0) = Zero THEN Raise("ZeroDivisionError")
        ELSE LET s0    == <<NumDiv(SeqGet(s, 0), SeqGet(b_, 0))>>
                 block == [k \in 1..l |-> SeqPow(s0, k)]
             IN  PopZeros(FloorDivLoop(s, b_, block, 1, l)[1])

\* ------------------------------------------------------------------------
\* Block: the record of its fields l, L and val, val a list of Seq lists
\* ------------------------------------------------------------------------

std_l == 30

RECURSIVE MaxOf(_)
MaxOf(t) == IF Len(t) = 1 THEN t[1] ELSE Max(MaxOf(Front(t)), Last(t))

\* Block(val) for a non-empty list val of Seq
BlockInit(val) ==
    [l |-> std_l, L |-> MaxOf([k \in 1..Len(val) |-> SeqLen(val[k])]), val |-> val]

BlockLen(m) == Len(m.val)

BlockGet(m, i) == IF BlockLen(m) > i /\ i >= 0 THEN m.val[i + 1] ELSE <<Zero>>

\* m[x][y] = v: Seq.__setitem__ on the row m[x]; a row beyond len(m) is a
\* new Seq(0), and storing into it changes nothing
BlockSetCell(m, x, y, v) ==
    IF BlockLen(m) > x /\ x >= 0
    THEN [m EXCEPT !.val[x + 1] = SeqSetItem(@, y, v)]
    ELSE m

BlockBlank(l) == BlockInit([x \in 1..l |-> [k \in 1..l |-> Zero]])

RECURSIVE IdentityLoop(_, _, _)
IdentityLoop(out, k, l) ==
    IF k >= l THEN out ELSE IdentityLoop(BlockSetCell(out, k, k, One), k + 1, l)

BlockIdentity(l) == IdentityLoop(BlockBlank(l), 0, l)

RECURSIVE PowerRows(_, _, _, _)
PowerRows(d, out, k, l) ==
    IF k >= l THEN out ELSE PowerRows(d, Append(out, SeqMul(Last(out), d)), k + 1, l)

\* Block.power(d, l), taper = False
BlockPower(d, l) == BlockInit(PowerRows(d, <<(<<One>>)>>, 1, l))

\* The loops of Block.__mul__ over x and y, c = x * self.L + y
RECURSIVE BlockMulLoop(_, _, _, _)
BlockMulLoop(s, o, out, c) ==
    IF c >= s.L * s.L THEN out
    ELSE LET x == c \div s.L
             y == c % s.L
             v == Sum([k \in 1..s.L |->
                        NumMul(SeqGet(BlockGet(s, x), k - 1), SeqGet(BlockGet(o, k - 1), y))])
         IN  BlockMulLoop(s, o, BlockSetCell(out, x, y, v), c + 1)

\* self * other for a Block other
BlockMul(s, o) ==
    BlockMulLoop(s, o,
                 BlockInit([x \in 1..Max(s.l, o.l) |-> [k \in 1..Max(s.L, o.L) |-> Zero]]),
                 0)

RECURSIVE BlockPowLoop(_, _, _)
BlockPowLoop(s, out, k) ==
    IF k <= 0 THEN out ELSE BlockPowLoop(s, BlockMul(out, s), k - 1)

BlockPow(s, power) ==
    IF power = 0
    THEN BlockIdentity(BlockLen(s))
    ELSE BlockPowLoop(s, BlockInit(s.val), power)

\* _sum after the inner loop of Block.f for index i, k the last index added
RECURSIVE BlockFInner(_, _, _, _, _)
BlockFInner(m, a_, g_f, i, k) ==
    IF k < 0 THEN Zero
    ELSE NumAdd(BlockFInner(m, a_, g_f, i, k - 1),
                NumMul(SeqGet(BlockGet(m, i - a_ * k), k), SeqGet(g_f, i - a_ * k)))

RECURSIVE BlockFLoop(_, _, _, _, _)
BlockFLoop(m, a_, g_f, out, i) ==
    IF i >= BlockLen(m) THEN out
    ELSE BlockFLoop(m, a_, g_f, SeqSetItem(out, i, BlockFInner(m, a_, g_f, i, i)), i + 1)

\* Block.f(a, g)
BlockF(m, a_, g) ==
    BlockFLoop(m, a_, SeqF(g, BlockLen(m)), [k \in 1..BlockLen(m) |-> Zero], 0)

\* Whether two Blocks hold the same cell at every index
SameCells(m, o) ==
    \A x \in 0..Max(BlockLen(m), BlockLen(o)) :
        SeqEq(BlockGet(m, x), BlockGet(o, x))

\* ------------------------------------------------------------------------
\* Binary operators and their right-hand operand.  An operand is the record
\* [kind, v]: a number c ("num", v = <<c>>), a list of numbers ("list"), the
\* list ["a"] ("badlist"), a Seq or a Sig (v its list), the string "a"
\* ("str") or None ("none").
\* ------------------------------------------------------------------------

NumLess(x, y) == LET d == NumSub(x, y) IN IF IsInt(d) THEN d.i < 0 ELSE d.neg

\* x < y for Python lists
RECURSIVE ListLess(_, _)
ListLess(x, y) ==
    IF x = <<>> THEN y # <<>>
    ELSE IF y = <<>> THEN FALSE
    ELSE IF Head(x) = Head(y) THEN ListLess(Tail(x), Tail(y))
    ELSE NumLess(Head(x), Head(y))

SeqGe(s, o) == ~ListLess(s, o)

SeqGt(s, o) == ListLess(o, s)

SeqLe(s, o) == ~ListLess(o, s)

SeqLt(s, o) == ListLess(s, o)

SigAdd(s, o) == SeqSub(SeqAdd(s, o), SeqMul(SeqMul(X, s), o))

SigSub(s, o) == SeqMul(SeqSub(s, o), SeqF(o, std_l))

\* The operators on a Seq operand o: the decorated functions f(self, o)
SeqTyped(op, s, o) ==
    CASE op = "Seq.__add__"     -> Ok(SeqAdd(s, o))
      [] op = "Seq.__sub__"     -> Ok(SeqSub(s, o))
      [] op = "Seq.__mul__"     -> Ok(SeqMul(s, o))
      [] op = "Seq.__truediv__" -> SeqTrueDiv(s, o)
      [] op = "Seq.__eq__"      -> Ok(SeqEq(s, o))
      [] op = "Seq.__ge__"      -> Ok(SeqGe(s, o))
      [] op = "Seq.__gt__"      -> Ok(SeqGt(s, o))
      [] op = "Seq.__le__"      -> Ok(SeqLe(s, o))
      [] op = "Seq.__lt__"      -> Ok(SeqLt(s, o))

\* f(self, None): len(None) is a TypeError, None.val and None.neg() an
\* AttributeError
SeqOnNone(op) ==
    IF op \in {"Seq.__add__", "Seq.__mul__", "Seq.__eq__"}
    THEN Raise("TypeError")
    ELSE Raise("AttributeError")

\* check_seq: the wrapper of a decorated Seq operator
CheckSeq(op, s, o) ==
    IF o.kind = "none" THEN SeqOnNone(op)
    ELSE IF o.kind \in {"badlist", "str"} THEN Raise("ValueError")
    ELSE SeqTyped(op, s, o.v)

\* Seq.__truediv__, which has no wrapper, on the operand as it came: o[0]
\* and o[x - k] index a list as a list, and len(o) is its stored length
SeqTrueDivRaw(s, o) ==
    IF o.kind \in {"none", "num", "badlist", "str"} THEN Raise("TypeError")
    ELSE IF o.kind = "list" /\ o.v = <<>> THEN Raise("IndexError")
    ELSE IF o.kind = "list" /\ o.v[1] = Zero THEN Raise("ZeroDivisionError")
    ELSE IF o.kind = "list" /\ Len(o.v) < SeqLen(s) THEN Raise("IndexError")
    ELSE SeqTrueDiv(s, o.v)

\* self <op> o for a Seq self
SeqCall(op, s, o) ==
    IF op = "Seq.__truediv__" THEN SeqTrueDivRaw(s, o) ELSE CheckSeq(op, s, o)

\* The operators on a Sig operand o
SigTyped(op, s, o) ==
    CASE op = "Sig.__add__"      -> Ok(SigAdd(s, o))
      [] op = "Sig.__sub__"      -> Ok(SigSub(s, o))
      [] op = "Sig.__mul__"      -> Ok(SigMul(s, o))
      [] op = "Sig.__truediv__"  -> SigTrueDiv(s, o)
      [] op = "Sig.__floordiv__" -> SigFloorDiv(s, o)
      [] op = "Sig.__eq__"       -> Ok(SigEq(s, o))
      [] op = "Sig.__ge__"       -> Ok(SeqGe(s, o))
      [] op = "Sig.__gt__"       -> Ok(SeqGt(s, o))
      [] op = "Sig.__le__"       -> Ok(SeqLe(s, o))
      [] op = "Sig.__lt__"       -> Ok(SeqLt(s, o))

\* check_sig: the wrapper of every Sig operator
CheckSig(op, s, o) ==
    IF o.kind \in {"badlist", "str"} THEN Raise("ValueError")
    ELSE SigTyped(op, s, IF o.kind = "none" THEN <<>> ELSE o.v)

SigCall(op, s, o) == CheckSig(op, s, o)

SeqOps ==
    {"Seq.__add__", "Seq.__sub__", "Seq.__mul__", "Seq.__truediv__", "Seq.__eq__",
     "Seq.__ge__", "Seq.__gt__", "Seq.__le__", "Seq.__lt__"}

SigOps ==
    {"Sig.__add__", "Sig.__sub__", "Sig.__mul__", "Sig.__truediv__", "Sig.__floordiv__",
     "Sig.__eq__", "Sig.__ge__", "Sig.__gt__", "Sig.__le__", "Sig.__lt__"}

\* ------------------------------------------------------------------------
\* State
\* ------------------------------------------------------------------------

VARIABLES
    pc,     \* the calls made so far
    a,      \* the receiver: the list of a Seq or of a Sig's Seq, the rows of
            \* a Block; under Spec the store of all lists
    b,      \* the right-hand operand, likewise; under SpecOperand an operand
            \* of any kind, under Spec the objects made so far
    n,      \* the integer argument: a length, a factor or an exponent;
            \* under Spec the object of the last call
    r       \* the result of the last call

vars == <<pc, a, b, n, r>>

\* The lists of at most len integers of C
ListsOf(C, len) == UNION {[1..k -> C] : k \in 0..len}

None == Ok(<<>>)

\* ------------------------------------------------------------------------
\* Calls on one Seq or Sig a and an integer n
\* ------------------------------------------------------------------------

MaxLen == 3

MaxCoef == 2

MaxN == 4

SeqVals == {Ints(l) : l \in ListsOf((0 - MaxCoef)..MaxCoef, MaxLen)}

InitUnary ==
    /\ pc = "start"
    /\ a \in SeqVals
    /\ b = <<>>
    /\ n \in 1..MaxN
    /\ r = None

\* r = Seq(a).f(n)
CallF ==
    /\ pc = "start"
    /\ r' = Ok(SeqF(a, n))
    /\ pc' = "f"
    /\ UNCHANGED <<a, b, n>>

\* r = Seq(a).f(n).i()
CallFI ==
    /\ pc = "f"
    /\ r' = SeqI(r.val)
    /\ pc' = "f_i"
    /\ UNCHANGED <<a, b, n>>

\* r = Seq(a).i()
CallI ==
    /\ pc = "start"
    /\ r' = SeqI(a)
    /\ pc' = "i"
    /\ UNCHANGED <<a, b, n>>

\* r = Seq(a).i().f(n)
CallIF ==
    /\ pc = "i"
    /\ r.err = "none"
    /\ r' = Ok(SeqF(r.val, n))
    /\ pc' = "i_f"
    /\ UNCHANGED <<a, b, n>>

\* r = Seq(a).aerate(n)
CallAerate ==
    /\ pc = "start"
    /\ r' = Ok(SeqAerate(a, n))
    /\ pc' = "aerate"
    /\ UNCHANGED <<a, b, n>>

\* r = Sig(a) * Sig(1)
CallMulOne ==
    /\ pc = "start"
    /\ r' = Ok(SigMul(a, <<One>>))
    /\ pc' = "mul_one"
    /\ UNCHANGED <<a, b, n>>

\* r = Sig(1) * Sig(a)
CallOneMul ==
    /\ pc = "start"
    /\ r' = Ok(SigMul(<<One>>, a))
    /\ pc' = "one_mul"
    /\ UNCHANGED <<a, b, n>>

\* r = Block.power(Seq(a), n).f()
CallPowerF ==
    /\ pc = "start"
    /\ r' = Ok(BlockF(BlockPower(a, n), 1, <<One>>))
    /\ pc' = "power_f"
    /\ UNCHANGED <<a, b, n>>

NextUnary ==
    \/ CallF \/ CallFI \/ CallI \/ CallIF
    \/ CallAerate \/ CallMulOne \/ CallOneMul \/ CallPowerF

SpecUnary == InitUnary /\ [][NextUnary]_vars

PowerTriangleSum ==
    pc = "power_f" => \A k \in 0..(n - 1) : SeqGet(r.val, k) = SeqGet(SeqF(a, n), k)

\* C3: Sig(1) is a left and a right identity of signature convolution:
\* A * Sig(1) == A and Sig(1) * A == A under Sig.__eq__, for every A.
SigOneIdentity ==
    pc \in {"mul_one", "one_mul"} => SigEq(r.val, a)

SigOneIdentityWitness ==
    /\ pc = "one_mul"
    /\ a = Ints(<<0, 2, 0>>)
    /\ r = Ok(Ints(<<0, 2>>))

\* C7: for every s and factor n >= 1, s.aerate(n)[k * n] == s[k] for every
\* k >= 0, and s.aerate(n)[j] == 0 at every j that is no multiple of n.
\* (Beyond the stored lengths both sides read 0.)
AerationInvariant ==
    pc = "aerate" =>
        /\ \A k \in 0..Len(a) : SeqGet(r.val, k * n) = SeqGet(a, k)
        /\ \A j \in 0..Len(r.val) : j % n # 0 => SeqGet(r.val, j) = Zero

\* ------------------------------------------------------------------------
\* Divisions of a by b, and the product that should give a back
\* ------------------------------------------------------------------------

PairLen == 2

PairCoef == 3

PairVals == {Ints(l) : l \in ListsOf((0 - PairCoef)..PairCoef, PairLen)}

InitBinary ==
    /\ pc = "start"
    /\ a \in PairVals
    /\ b \in PairVals
    /\ n = 0
    /\ r = None

\* r = Seq(a) / Seq(b)
CallSeqTrueDiv ==
    /\ pc = "start"
    /\ r' = SeqTrueDiv(a, b)
    /\ pc' = "seq_div"
    /\ UNCHANGED <<a, b, n>>

\* r = (Seq(a) / Seq(b)) * Seq(b)
CallSeqDivMul ==
    /\ pc = "seq_div"
    /\ r.err = "none"
    /\ r' = Ok(SeqMul(r.val, b))
    /\ pc' = "seq_div_mul"
    /\ UNCHANGED <<a, b, n>>

\* r = Sig(a) / Sig(b)
CallSigTrueDiv ==
    /\ pc = "start"
    /\ r' = SigTrueDiv(a, b)
    /\ pc' = "sig_div"
    /\ UNCHANGED <<a, b, n>>

\* r = Seq(Sig(a) / Sig(b)) * Seq(b)
CallSigDivMul ==
    /\ pc = "sig_div"
    /\ r.err = "none"
    /\ r' = Ok(SeqMul(r.val, b))
    /\ pc' = "sig_div_mul"
    /\ UNCHANGED <<a, b, n>>

\* r = Sig(a) // Sig(b)
CallSigFloorDiv ==
    /\ pc = "start"
    /\ r' = SigFloorDiv(a, b)
    /\ pc' = "sig_floordiv"
    /\ UNCHANGED <<a, b, n>>

\* r = Sig(b) * (Sig(a) // Sig(b))
CallSigFloorDivMul ==
    /\ pc = "sig_floordiv"
    /\ r.err = "none"
    /\ r' = Ok(SigMul(b, r.val))
    /\ pc' = "sig_floordiv_mul"
    /\ UNCHANGED <<a, b, n>>

NextBinary ==
    \/ CallSeqTrueDiv \/ CallSeqDivMul
    \/ CallSigTrueDiv \/ CallSigDivMul
    \/ CallSigFloorDiv \/ CallSigFloorDivMul

SpecBinary == InitBinary /\ [][NextBinary]_vars

\* r agrees with a at every index below max(len(a), len(b))
AgreesOnWindow == \A k \in 0..(Max(SeqLen(a), SeqLen(b)) - 1) : SeqGet(r.val, k) = SeqGet(a, k)

\* C4: for a and b with b[0] != 0, ((a / b) * b)[k] == a[k] at every index k
\* below max(len(a), len(b)).
DivisionRoundTrip ==
    (SeqGet(b, 0) # Zero /\ pc = "seq_div_mul") => AgreesOnWindow

\* C5: for signatures A and B with B[0] != 0, A / B completes without error,
\* and the Cauchy product of the quotient with B agrees with A at every index
\* below max(len(A), len(B)).
SigTrueDivRoundTrip ==
    SeqGet(b, 0) # Zero =>
        /\ pc = "sig_div" => r.err = "none"
        /\ pc = "sig_div_mul" => AgreesOnWindow

\* C6: for signatures A and B with B[0] != 0, A // B completes without error,
\* and the signature convolution B * (A // B) agrees with A at every index
\* below max(len(A), len(B)).
SigFloorDivRoundTrip ==
    SeqGet(b, 0) # Zero =>
        /\ pc = "sig_floordiv" => r.err = "none"
        /\ pc = "sig_floordiv_mul" => AgreesOnWindow

\* ------------------------------------------------------------------------
\* Powers of a Block
\* ------------------------------------------------------------------------

BlockDim == 2

BlockCoef == 1

MaxPow == 2

BlockRows == {Ints(l) : l \in ListsOf((0 - BlockCoef)..BlockCoef, BlockDim)}

\* a is the list of the rows of the Block M = Block(a)
InitBlock ==
    /\ pc = "start"
    /\ a \in UNION {[1..k -> BlockRows] : k \in 1..BlockDim}
    /\ b = <<>>
    /\ n \in 0..MaxPow
    /\ r = None

\* r = M ** n
CallPow ==
    /\ pc = "start"
    /\ r' = Ok(BlockPow(BlockInit(a), n))
    /\ pc' = "pow"
    /\ UNCHANGED <<a, b, n>>

\* r = (M ** n) * M
CallPowMul ==
    /\ pc = "pow"
    /\ r' = Ok(BlockMul(r.val, BlockInit(a)))
    /\ pc' = "pow_mul"
    /\ UNCHANGED <<a, b, n>>

NextBlock == CallPow \/ CallPowMul

SpecBlock == InitBlock /\ [][NextBlock]_vars

\* C9: M ** n is the n-fold product of M: M ** 0 is the identity Block of
\* M's size, M ** 1 has the cells of M, and M ** (n + 1) has the cells of
\* (M ** n) * M.
BlockPowIsNFold ==
    /\ (pc = "pow" /\ n = 0) => SameCells(r.val, BlockIdentity(Len(a)))
    /\ (pc = "pow" /\ n = 1) => SameCells(r.val, BlockInit(a))
    /\ pc = "pow_mul" => SameCells(r.val, BlockPow(BlockInit(a), n + 1))

\* ------------------------------------------------------------------------
\* A binary operator of a Seq or a Sig a on an operand b of any kind
\* ------------------------------------------------------------------------

OperandLen == 2

OperandCoef == 1

OperandLists == {Ints(l) : l \in ListsOf((0 - OperandCoef)..OperandCoef, OperandLen)}

Operands ==
    {[kind |-> k, v |-> <<>>] : k \in {"none", "badlist", "str"}}
        \cup {[kind |-> "num", v |-> <<IntNum(c)>>] : c \in (0 - OperandCoef)..OperandCoef}
        \cup {[kind |-> k, v |-> l] : k \in {"list", "seq", "sig"}, l \in OperandLists}

InitOperand ==
    /\ pc = "start"
    /\ a \in OperandLists
    /\ b \in Operands
    /\ n = 0
    /\ r = None

\* r = Seq(a) <op> b
CallSeqOperator ==
    /\ pc = "start"
    /\ \E op \in SeqOps :
          /\ r' = SeqCall(op, a, b)
          /\ pc' = op
    /\ UNCHANGED <<a, b, n>>

\* r = Sig(a) <op> b
CallSigOperator ==
    /\ pc = "start"
    /\ \E op \in SigOps :
          /\ r' = SigCall(op, a, b)
          /\ pc' = op
    /\ UNCHANGED <<a, b, n>>

NextOperand == CallSeqOperator \/ CallSigOperator

SpecOperand == InitOperand /\ [][NextOperand]_vars

\* The result of the operator pc on the operand made a Seq or a Sig first
Normalized ==
    IF pc \in SeqOps THEN SeqTyped(pc, a, b.v) ELSE SigTyped(pc, a, b.v)

\* C8: every binary operator of Seq and Sig takes a number, a list of
\* numbers, a Seq or a Sig and returns what it returns on that operand made
\* the receiver's type first; on any other operand, or a list with a
\* non-numeric element, it fails with the unsupported-operand error.
OperandCoercion ==
    pc \in SeqOps \cup SigOps =>
        IF b.kind \in {"num", "list", "seq", "sig"}
        THEN /\ r.err = Normalized.err
             /\ r.err = "none" => r.val = Normalized.val
        ELSE r.err = "ValueError"

\* v with zeros after it up to the length k
Padded(v, k) == [i \in 1..k |-> IF i <= Len(v) THEN v[i] ELSE Zero]

\* s < o, both padded with zeros to the length of the longer
PaddedLess(s, o) ==
    ListLess(Padded(s, Max(Len(s), Len(o))), Padded(o, Max(Len(s), Len(o))))

\* C11: <, <=, > and >= of Seq compare the two coefficient lists
\* lexicographically after padding both with zeros to the longer one's
\* length, and agree with ==: when a == b, a <= b and a >= b hold and
\* a < b and a > b do not.
OrderingZeroPadded ==
    (b.kind = "seq" /\ pc \in {"Seq.__lt__", "Seq.__le__", "Seq.__gt__", "Seq.__ge__"}) =>
        /\ r.err = "none"
        /\ r.val = CASE pc = "Seq.__lt__" -> PaddedLess(a, b.v)
                     [] pc = "Seq.__le__" -> ~PaddedLess(b.v, a)
                     [] pc = "Seq.__gt__" -> PaddedLess(b.v, a)
                     [] pc = "Seq.__ge__" -> ~PaddedLess(a, b.v)
        /\ SeqEq(a, b.v) => (r.val <=> pc \in {"Seq.__le__", "Seq.__ge__"})

\* ------------------------------------------------------------------------
\* Objects and the lists they hold.  Here a is the store of Python lists (a
\* list's identity is its index in a) and b the Seq and Sig objects made so
\* far, each [cls, ref]: ref is the list that self.val (for a Sig,
\* self.val.val) refers to.  No method rebinds the val of an existing object.
\* n is the object the last call was made on.
\* ------------------------------------------------------------------------

HeapObjects == 3

HeapLen == 2

HeapCoef == 1

HeapNums == {IntNum(c) : c \in 0..HeapCoef}

HeapLists == {Ints(l) : l \in ListsOf(0..HeapCoef, HeapLen)}

Coefs(j) == a[b[j].ref]

Init ==
    /\ pc = "start"
    /\ a = <<>>
    /\ b = <<>>
    /\ n = 0
    /\ r = None

\* Seq(c), Sig(c): a new list [c]
NewFromNumber ==
    /\ Len(b) < HeapObjects
    /\ \E cls \in {"Seq", "Sig"}, c \in HeapNums :
          /\ a' = Append(a, <<c>>)
          /\ b' = Append(b, [cls |-> cls, ref |-> Len(a) + 1])
    /\ pc' = "new"
    /\ n' = Len(b) + 1
    /\ r' = None

\* Seq(l), Sig(l) for a list l: a new list with the elements of l
NewFromList ==
    /\ Len(b) < HeapObjects
    /\ \E cls \in {"Seq", "Sig"}, l \in HeapLists :
          /\ a' = Append(a, l)
          /\ b' = Append(b, [cls |-> cls, ref |-> Len(a) + 1])
    /\ pc' = "new"
    /\ n' = Len(b) + 1
    /\ r' = None

\* Seq(o), Sig(o) for an object o: self.val = o.val, o.val.val, o or o.val;
\* each of them leaves the new object on o's list
NewCopy ==
    /\ Len(b) < HeapObjects
    /\ \E cls \in {"Seq", "Sig"}, j \in 1..Len(b) :
          b' = Append(b, [cls |-> cls, ref |-> b[j].ref])
    /\ pc' = "copy"
    /\ n' = Len(b) + 1
    /\ UNCHANGED <<a, r>>

\* b[i] + b[j]: a new object of the class of b[i] on a new list
CallAdd ==
    /\ Len(b) < HeapObjects
    /\ \E i \in 1..Len(b), j \in 1..Len(b) :
          LET out == IF b[i].cls = "Seq" THEN SeqAdd(Coefs(i), Coefs(j))
                     ELSE SigAdd(Coefs(i), Coefs(j))
          IN  /\ a' = Append(a, out)
              /\ b' = Append(b, [cls |-> b[i].cls, ref |-> Len(a) + 1])
    /\ pc' = "add"
    /\ n' = Len(b) + 1
    /\ r' = None

\* b[i] * b[j]: a new object of the class of b[i] on a new list
CallMul ==
    /\ Len(b) < HeapObjects
    /\ \E i \in 1..Len(b), j \in 1..Len(b) :
          LET out == IF b[i].cls = "Seq" THEN SeqMul(Coefs(i), Coefs(j))
                     ELSE SigMul(Coefs(i), Coefs(j))
          IN  /\ a' = Append(a, out)
              /\ b' = Append(b, [cls |-> b[i].cls, ref |-> Len(a) + 1])
    /\ pc' = "mul"
    /\ n' = Len(b) + 1
    /\ r' = None

\* b[i].append(v): self.val.append(v)
CallAppend ==
    /\ \E i \in 1..Len(b), v \in HeapNums :
          /\ Len(Coefs(i)) < HeapLen
          /\ a' = [a EXCEPT ![b[i].ref] = Append(@, v)]
          /\ n' = i
    /\ pc' = "append"
    /\ r' = None
    /\ UNCHANGED b

\* b[i][key] = v: Seq.__setitem__; a Sig has no __setitem__
CallSetItem ==
    /\ \E i \in 1..Len(b), key \in 0..(HeapLen - 1), v \in HeapNums :
          /\ n' = i
          /\ IF b[i].cls = "Seq"
             THEN /\ a' = [a EXCEPT ![b[i].ref] = SeqSetItem(@, key, v)]
                  /\ r' = None
             ELSE /\ a' = a
                  /\ r' = Raise("TypeError")
    /\ pc' = "setitem"
    /\ UNCHANGED b

Next ==
    \/ NewFromNumber
    \/ NewFromList
    \/ NewCopy
    \/ CallAdd
    \/ CallMul
    \/ CallAppend
    \/ CallSetItem

Spec == Init /\ [][Next]_vars

\* C10: an append or an index assignment on one Seq or Sig object changes
\* the coefficients of that object only; every other object, the one it was
\* copied from or wraps included, keeps its coefficients.
MutationIsLocal ==
    [][pc' \in {"append", "setitem"} =>
          \A j \in 1..Len(b) : j # n' => a'[b'[j].ref] = Coefs(j)]_vars

=============================================================================
